---------------------------- MODULE Spec2Model ----------------------------
(***************************************************************************)
(* A model of the AlphaAI forecasting core.                                *)
(*                                                                         *)
(*   LSTMService  (src/src/services/lstmService.ts): the fields model and  *)
(*     scaler, the asynchronous operations trainModel and predict split at *)
(*     their awaits, and the synchronous dispose.                          *)
(*   StockService (src/unnamed/part_000): the indicator functions.         *)
(*                                                                         *)
(* Numbers.  A JavaScript number is modelled as a record                   *)
(*   [k |-> "fin" | "nan" | "pinf" | "ninf", n |-> Int, d |-> Int]         *)
(* where a finite value is the reduced fraction n/d (d > 0).  The special  *)
(* values follow IEEE-754 arithmetic (0/0 = NaN, x/0 = +-Infinity, ...).   *)
(* Rounding of finite binary floating point and the sign of zero are not   *)
(* modelled: finite arithmetic is exact.                                   *)
(***************************************************************************)
EXTENDS Integers, Sequences, FiniteSets, TLC

(***************************************************************************)
(* Bounds of the model.                                                    *)
(***************************************************************************)
MaxLen == 3
\* longest price history handed to trainModel / predict

MaxLookback == 2
\* lookback arguments are drawn from 0..MaxLookback

MaxHorizon == 2
\* futureDays arguments are drawn from 0..MaxHorizon

MaxTrains == 2
\* number of trainModel calls in one behaviour

MaxDay == 1
\* predict is called up to MaxDay days after the last day of the history

PureMaxLen == 5
\* longest series handed to the pure functions

PureMaxVal == 5
\* the series handed to the pure functions hold values 1..PureMaxVal (scaled)

PureMaxK == 3
\* lookback / period arguments of the pure functions: 0..PureMaxK

MaxLoads == 1
\* number of symbol selections in one behaviour of the Dashboard

Scales == {1, 10}
\* the series handed to the pure functions are scaled by one of these

(***************************************************************************)
(* JavaScript numbers.                                                     *)
(***************************************************************************)
Abs(x) == IF x < 0 THEN -x ELSE x

Min2(a, b) == IF a < b THEN a ELSE b

Max2(a, b) == IF a > b THEN a ELSE b

RECURSIVE GCD(_, _)
GCD(a, b) == IF b = 0 THEN a ELSE GCD(b, a % b)

NaN == [k |-> "nan", n |-> 0, d |-> 1]

PInf == [k |-> "pinf", n |-> 0, d |-> 1]

NInf == [k |-> "ninf", n |-> 0, d |-> 1]

\* the finite number n/d (d # 0), reduced
Fin(n, d) ==
  LET g == GCD(Abs(n), Abs(d))
      s == IF d < 0 THEN -1 ELSE 1
  IN  [k |-> "fin", n |-> (s * n) \div g, d |-> (s * d) \div g]

Num(i) == Fin(i, 1)

IsFin(a) == a.k = "fin"

IsNaN(a) == a.k = "nan"

Sign(a) ==
  CASE a.k = "pinf" -> 1
    [] a.k = "ninf" -> -1
    [] OTHER -> IF a.n < 0 THEN -1 ELSE IF a.n > 0 THEN 1 ELSE 0

Inf(s) == IF s < 0 THEN NInf ELSE PInf

FNeg(a) ==
  CASE a.k = "nan" -> NaN
    [] a.k = "pinf" -> NInf
    [] a.k = "ninf" -> PInf
    [] OTHER -> Fin(-a.n, a.d)

FAdd(a, b) ==
  IF IsNaN(a) \/ IsNaN(b) THEN NaN
  ELSE IF IsFin(a) /\ IsFin(b) THEN Fin(a.n * b.d + b.n * a.d, a.d * b.d)
  ELSE IF IsFin(a) THEN b
  ELSE IF IsFin(b) THEN a
  ELSE IF a.k = b.k THEN a ELSE NaN

FSub(a, b) == FAdd(a, FNeg(b))

FMul(a, b) ==
  IF IsNaN(a) \/ IsNaN(b) THEN NaN
  ELSE IF IsFin(a) /\ IsFin(b) THEN Fin(a.n * b.n, a.d * b.d)
  ELSE IF Sign(a) = 0 \/ Sign(b) = 0 THEN NaN
  ELSE Inf(Sign(a) * Sign(b))

FDiv(a, b) ==
  IF IsNaN(a) \/ IsNaN(b) THEN NaN
  ELSE IF IsFin(a) /\ IsFin(b)
       THEN IF b.n = 0
            THEN IF a.n = 0 THEN NaN ELSE Inf(Sign(a))
            ELSE Fin(a.n * b.d, a.d * b.n)
  ELSE IF IsFin(a) THEN Num(0)
  ELSE IF IsFin(b) THEN Inf(Sign(a) * (IF b.n < 0 THEN -1 ELSE 1))
  ELSE NaN

\* parseFloat(x.toFixed(2)): two decimals, ties away from zero
Round2(a) ==
  IF ~IsFin(a) THEN a
  ELSE LET q == (2 * Abs(a.n) * 100 + a.d) \div (2 * a.d)
       IN  Fin(Sign(a) * q, 100)

(***************************************************************************)
(* JavaScript arrays: Array.prototype.slice on a sequence (0-based, end    *)
(* exclusive, negative indices counted from the end, both clamped).        *)
(***************************************************************************)
Slice(s, start, end) ==
  LET len == Len(s)
      from == IF start < 0 THEN Max2(len + start, 0) ELSE Min2(start, len)
      to == IF end < 0 THEN Max2(len + end, 0) ELSE Min2(end, len)
  IN  SubSeq(s, from + 1, to)

SliceFrom(s, start) == Slice(s, start, Len(s))

RECURSIVE SeqMin(_)
SeqMin(s) ==
  IF Len(s) = 1 THEN s[1] ELSE Min2(s[1], SeqMin(Tail(s)))

RECURSIVE SeqMax(_)
SeqMax(s) ==
  IF Len(s) = 1 THEN s[1] ELSE Max2(s[1], SeqMax(Tail(s)))

\* Math.min(...data) over integer prices; Math.min() is Infinity
MathMin(data) == IF data = <<>> THEN PInf ELSE Num(SeqMin(data))

\* Math.max(...data); Math.max() is -Infinity
MathMax(data) == IF data = <<>> THEN NInf ELSE Num(SeqMax(data))

RECURSIVE SeqSum(_)
SeqSum(s) == IF s = <<>> THEN 0 ELSE s[1] + SeqSum(Tail(s))

\* all sequences over S of length at most n
SeqsUpTo(S, n) == UNION {[1..m -> S] : m \in 0..n}

(***************************************************************************)
(* LSTMService: the pure helpers.                                          *)
(***************************************************************************)
\* normalizeData(data): the scaler of data and data mapped into it
normalizeData(data) ==
  LET min == MathMin(data)
      max == MathMax(data)
  IN  [normalized |-> [i \in 1..Len(data) |->
                         FDiv(FSub(Num(data[i]), min), FSub(max, min))],
       scaler |-> [min |-> min, max |-> max]]

\* denormalizeData(normalizedData, scaler)
denormalizeData(normalizedData, scaler) ==
  [i \in 1..Len(normalizedData) |->
     FAdd(FMul(normalizedData[i], FSub(scaler.max, scaler.min)), scaler.min)]

\* the for loop of createSequences, from index i (0-based) on
RECURSIVE createSequencesLoop(_, _, _, _, _)
createSequencesLoop(data, lookback, i, X, y) ==
  IF i < Len(data)
  THEN createSequencesLoop(data, lookback, i + 1,
                           Append(X, Slice(data, i - lookback, i)),
                           Append(y, data[i + 1]))
  ELSE [X |-> X, y |-> y]

\* mutant: the loop starts one index late
createSequencesLate(data, lookback) ==
  createSequencesLoop(data, lookback, lookback + 1, <<>>, <<>>)

\* createSequences(data, lookback), lookback >= 0
createSequences(data, lookback) ==
  createSequencesLoop(data, lookback, lookback, <<>>, <<>>)

(***************************************************************************)
(* StockService: the indicators.  data is the list of the points' prices.  *)
(***************************************************************************)
\* the for loop of calculateMovingAverage, from index i (0-based) on
RECURSIVE calculateMovingAverageLoop(_, _, _, _)
calculateMovingAverageLoop(data, period, i, ma) ==
  IF i < Len(data)
  THEN calculateMovingAverageLoop(data, period, i + 1,
         IF i < period - 1
         THEN Append(ma, NaN)
         ELSE Append(ma, FDiv(Num(SeqSum(Slice(data, i - period + 1, i + 1))),
                              Num(period))))
  ELSE ma

\* mutant: i < period instead of i < period - 1, the window unchanged
calculateMovingAverageLate(data, period) ==
  [j \in 1..Len(data) |->
     IF j - 1 < period
     THEN NaN
     ELSE FDiv(Num(SeqSum(Slice(data, j - period, j))), Num(period))]

\* calculateMovingAverage(data, period), period >= 1
calculateMovingAverage(data, period) ==
  calculateMovingAverageLoop(data, period, 0, <<>>)

\* the price changes of the first loop of calculateRSI, as gains
\* (change > 0 ? change : 0), one for each index 1..length-1
rsiGains(data) ==
  [i \in 1..(Len(data) - 1) |->
     IF data[i + 1] - data[i] > 0 THEN data[i + 1] - data[i] ELSE 0]

\* and as losses (change < 0 ? Math.abs(change) : 0)
rsiLosses(data) ==
  [i \in 1..(Len(data) - 1) |->
     IF data[i + 1] - data[i] < 0 THEN Abs(data[i + 1] - data[i]) ELSE 0]

\* mutant: rs is avgLoss / avgGain
rsiValueSwapped(avgGain, avgLoss) ==
  IF avgLoss = Num(0)
  THEN Num(100)
  ELSE FSub(Num(100),
            FDiv(Num(100), FAdd(Num(1), FDiv(avgLoss, avgGain))))

\* if (avgLoss === 0) 100 else 100 - (100 / (1 + avgGain / avgLoss))
rsiValue(avgGain, avgLoss) ==
  IF avgLoss = Num(0)
  THEN Num(100)
  ELSE FSub(Num(100),
            FDiv(Num(100), FAdd(Num(1), FDiv(avgGain, avgLoss))))

\* the second loop of calculateRSI, from index i (0-based) on.  reduce
\* without an initial value throws a TypeError on an empty window.
RECURSIVE calculateRSILoop(_, _, _, _, _)
calculateRSILoop(gains, losses, period, i, rsi) ==
  IF i < Len(gains)
  THEN IF i < period - 1
       THEN calculateRSILoop(gains, losses, period, i + 1, Append(rsi, NaN))
       ELSE LET g == Slice(gains, i - period + 1, i + 1)
                l == Slice(losses, i - period + 1, i + 1)
            IN  IF g = <<>> \/ l = <<>>
                THEN [threw |-> TRUE, rsi |-> <<>>]
                ELSE calculateRSILoop(gains, losses, period, i + 1,
                       Append(rsi, rsiValue(FDiv(Num(SeqSum(g)), Num(period)),
                                            FDiv(Num(SeqSum(l)), Num(period)))))
  ELSE [threw |-> FALSE, rsi |-> <<NaN>> \o rsi]

\* calculateRSI(data, period), period >= 0: the series, or threw
calculateRSI(data, period) ==
  calculateRSILoop(rsiGains(data), rsiLosses(data), period, 0, <<>>)

(***************************************************************************)
(* The state.                                                              *)
(*                                                                         *)
(* model, scaler : the two private fields of LSTMService.  model is 0 for  *)
(*     null, else the index in models of the tf.LayersModel it refers to.  *)
(* models : the tf.LayersModel objects built so far by buildModel; the     *)
(*     model object is an external (TensorFlow.js) object, abstracted to   *)
(*     its input shape, whether fit has updated its initial weights,       *)
(*     whether it was fitted on NaN data, whether its fit has completed    *)
(*     and whether it is disposed.  The number of epochs (>= 1) is not     *)
(*     modelled: a fit is one or more weight updates.                      *)
(* tr : the trainModel call in flight (one at a time in this model),       *)
(*     suspended at its await on model.fit when pc = "fit".                *)
(* fc : the predict call in flight, suspended at its await on              *)
(*     prediction.data() when pc = "await".                                *)
(*     A call that has returned or thrown has pc = "done" and holds its    *)
(*     outcome until the caller's continuation takes it (ReturnTrain,      *)
(*     ReturnPredict).  That continuation runs as a microtask of the task  *)
(*     in which the call settled, so no other step is taken before it.     *)
(* Days are numbered from the date of the last point of the history in    *)
(*     the caller's hands (day 0); new Date() reads a day 0..MaxDay.       *)
(* trainCount, disposedFrom : history variables (number of trainModel      *)
(*     calls made; the state the last dispose was called in, reset by the  *)
(*     next trainModel call).                                              *)
(* fnPc, fnData, fnParam, seqOut, maOut, rsiOut : the harness applying the *)
(*     pure functions to drawn inputs (specification SpecPure).            *)
(* prev : the last predict call that returned to a caller awaiting each    *)
(*     call in turn (specification SpecSeq).                               *)
(* selectedSymbol, stockData, predictions, chartData, loading, training,   *)
(*     showPredictions : the state of the Dashboard component              *)
(*     (src/unnamed/part_002, specification SpecDash); loads : the         *)
(*     loadStockData calls in flight, oldest first; loadCount : the number *)
(*     of symbol selections made; gp : the generatePredictions run in      *)
(*     flight, with the values its closure captured.                       *)
(***************************************************************************)
VARIABLES model, scaler, models, tr, fc, trainCount, disposedFrom,
          fnPc, fnData, fnParam, seqOut, maOut, rsiOut,
          prev,
          selectedSymbol, stockData, predictions, chartData, loading,
          training, showPredictions, loads, loadCount, gp

vars == <<model, scaler, models, tr, fc, trainCount, disposedFrom,
          fnPc, fnData, fnParam, seqOut, maOut, rsiOut,
          prev,
          selectedSymbol, stockData, predictions, chartData, loading,
          training, showPredictions, loads, loadCount, gp>>

svcVars == <<model, scaler, models, tr, fc, trainCount, disposedFrom>>

fnVars == <<fnPc, fnData, fnParam, seqOut, maOut, rsiOut>>

uiVars == <<selectedSymbol, stockData, predictions, chartData, loading,
            training, showPredictions, loads, loadCount, gp>>

\* the variables of the callers of the service
appVars == <<prev, uiVars>>

\* private scaler: { min; max } | null = null.  by is a history field: the
\* number of the trainModel call that stored the scaler.
NullScaler == [null |-> TRUE, min |-> NaN, max |-> NaN, by |-> 0]

\* The price histories handed to predict: for every length n up to MaxLen
\* the rising history 1, 2, ..., n.
PredictHistories == {[i \in 1..n |-> i] : n \in 0..MaxLen}

\* The price histories handed to trainModel: the rising histories and the
\* flat histories 1, 1, ..., 1.
Histories ==
  PredictHistories \cup {[i \in 1..n |-> 1] : n \in 0..MaxLen}

IsFlat(prices) == \A i, j \in 1..Len(prices) : prices[i] = prices[j]

IdleTrain ==
  [pc |-> "idle", id |-> 0, m |-> 0, nanData |-> FALSE, result |-> "none",
   \* history fields: the call's prices were fewer than lookback + 1; they
   \* were more than lookback and all equal
   short |-> FALSE, flat |-> FALSE]

IdlePredict ==
  [pc |-> "idle", lookback |-> 0, futureDays |-> 0, i |-> 0,
   cur |-> <<>>, predictions |-> <<>>, pending |-> NaN,
   result |-> "none", out |-> <<>>,
   \* history fields
   \*   n        : the number of prices handed in
   \*   fresh    : no trainModel call had been made when the call began
   \*   after    : disposedFrom when the call began
   \*   norm     : the normalized history
   \*   windows  : the windows handed to the model, in order
   \*   sBy      : the train call whose scaler normalized the history
   \*   whole    : every model asked so far was built by train call sBy and
   \*              its fit had completed; the scaler that denormalized the
   \*              predictions was that of train call sBy
   n |-> 0, fresh |-> FALSE, after |-> "none",
   norm |-> <<>>, windows |-> <<>>, sBy |-> 0, whole |-> TRUE]

(***************************************************************************)
(* The TensorFlow.js model object, as far as LSTMService uses it.          *)
(***************************************************************************)
\* buildModel(inputShape): a fresh compiled model with randomly initialised
\* weights; by numbers the trainModel call that built it.
buildModel(inputShape, by) ==
  [shape |-> inputShape, by |-> by, updated |-> FALSE, nan |-> FALSE,
   fitted |-> FALSE, disposed |-> FALSE]

\* A model object that neither the field nor a suspended trainModel call
\* refers to any more is never used again: of such an object only who built
\* it and whether it was disposed (it holds its tensors otherwise) is kept.
Forget(ms, i) ==
  IF i = 0
  THEN ms
  ELSE [ms EXCEPT ![i] = [shape |-> 0, by |-> @.by, updated |-> FALSE,
                          nan |-> FALSE, fitted |-> FALSE,
                          disposed |-> @.disposed]]

\* model.predict(tensor3d([window])) followed by data()[0]: a deterministic
\* function of the model's weights (here: which model, whether fit has
\* updated them, whether it was fitted on NaN data) and of the window.
ModelPredict(m, window) ==
  IF m.nan \/ \E j \in 1..Len(window) : ~IsFin(window[j])
  THEN NaN
  ELSE window[((m.by + (IF m.updated THEN 1 ELSE 0)) % Len(window)) + 1]

\* tf.tensor3d(X.map(seq => seq.map(val => [val]))) throws unless the nested
\* array has three levels: X must hold a window and windows an element.
tensor3dThrows(X) == X = <<>> \/ X[1] = <<>>

(***************************************************************************)
(* trainModel (lstmService.ts 68-111).                                     *)
(***************************************************************************)
\* no settled call is waiting for its caller's continuation
Quiet == tr.pc # "done" /\ fc.pc # "done"

\* mutant: the emptiness check is left out
notEnoughDataOmitted(X) == FALSE

\* if (X.length === 0) throw new Error('Not enough data to train the model')
notEnoughData(X) == Len(X) = 0

\* trainModel from its entry to its await on model.fit (or to its throw):
\* what it does to the service
trainModelEntry(prices, lookback) ==
  LET id == trainCount + 1
      nd == normalizeData(prices)
      sq == createSequences(nd.normalized, lookback)
      call == [IdleTrain EXCEPT !.id = id,
                 !.short = (Len(prices) < lookback + 1),
                 !.flat = (IsFlat(prices) /\ Len(prices) > lookback),
                 !.nanData = \E j \in 1..Len(prices) :
                                ~IsFin(nd.normalized[j])]
  IN  /\ Quiet
      /\ tr.pc = "idle"
      /\ trainCount < MaxTrains
      /\ trainCount' = id
      /\ disposedFrom' = "none"
      /\ scaler' = [null |-> FALSE, min |-> nd.scaler.min,
                    max |-> nd.scaler.max, by |-> id]
      /\ IF notEnoughData(sq.X)
         THEN /\ tr' = [call EXCEPT !.pc = "done", !.result = "NotEnoughData"]
              /\ UNCHANGED <<model, models>>
         ELSE IF tensor3dThrows(sq.X)
         THEN /\ tr' = [call EXCEPT !.pc = "done", !.result = "TensorError"]
              /\ UNCHANGED <<model, models>>
         ELSE /\ models' = Append(Forget(models, model),
                                  buildModel(lookback, id))
              /\ model' = Len(models) + 1
              /\ tr' = [call EXCEPT !.pc = "fit", !.m = Len(models) + 1]

\* a trainModel call
trainModel(prices, lookback) ==
  /\ trainModelEntry(prices, lookback)
  /\ UNCHANGED <<fc, fnVars, appVars>>

\* model.fit updates the weights, inside TensorFlow.js, while trainModel is
\* suspended
FitEpoch ==
  /\ Quiet
  /\ tr.pc = "fit"
  /\ ~models[tr.m].disposed
  /\ ~models[tr.m].updated
  /\ models' = [models EXCEPT ![tr.m].updated = TRUE,
                              ![tr.m].nan = tr.nanData]
  /\ UNCHANGED <<model, scaler, tr, fc, trainCount, disposedFrom, fnVars,
                 appVars>>

\* model.fit rejects: the model was disposed while it was being fitted;
\* the catch block rethrows
FitFails ==
  /\ Quiet
  /\ tr.pc = "fit"
  /\ models[tr.m].disposed
  /\ models' = Forget(models, tr.m)
  /\ tr' = [tr EXCEPT !.pc = "done", !.result = "FitError"]
  /\ UNCHANGED <<model, scaler, fc, trainCount, disposedFrom, fnVars,
                 appVars>>

\* model.fit resolves and trainModel resumes after its await: the tensors
\* are disposed and the call returns
trainModelResume ==
  /\ Quiet
  /\ tr.pc = "fit"
  /\ models[tr.m].updated
  /\ ~models[tr.m].disposed
  /\ models' = IF model = tr.m
               THEN [models EXCEPT ![tr.m].fitted = TRUE]
               ELSE Forget(models, tr.m)
  /\ tr' = [tr EXCEPT !.pc = "done", !.result = "ok"]
  /\ UNCHANGED <<model, scaler, fc, trainCount, disposedFrom, fnVars,
                 appVars>>

\* the caller's continuation takes the outcome of trainModel
ReturnTrain ==
  /\ tr.pc = "done"
  /\ tr' = IdleTrain
  /\ UNCHANGED <<model, scaler, models, fc, trainCount, disposedFrom,
                 fnVars, appVars>>

(***************************************************************************)
(* predict (lstmService.ts 114-167).                                       *)
(***************************************************************************)
\* mutant: the fields are compared with undefined, which a null field never
\* equals, so the guard never fires
predictGuardUndefined(m, s) == FALSE

\* if (!this.model || !this.scaler) throw new Error('Model not trained yet')
predictGuardFails(m, s) == m = 0 \/ s.null

\* what a read of this.model observes: who built it, and whether its fit
\* has completed (history)
ModelRead(m) ==
  IF m = 0
  THEN [by |-> 0, fitted |-> FALSE]
  ELSE [by |-> models[m].by, fitted |-> models[m].fitted]

\* (price - this.scaler.min) / (this.scaler.max - this.scaler.min)
normalizePrices(prices, s) ==
  [j \in 1..Len(prices) |->
     FDiv(FSub(Num(prices[j]), s.min), FSub(s.max, s.min))]

\* mutant: the window slides but repeats its last element instead of
\* taking the prediction in
slideWindowNoFeedback(cur, v) == Append(SliceFrom(cur, 1), cur[Len(cur)])

\* currentSequence = [...currentSequence.slice(1), predictionValue[0]]
slideWindow(cur, v) == Append(SliceFrom(cur, 1), v)

\* futureDate.setDate(lastDate.getDate() + i + 1) and its ISO date, days
\* being numbered; i is the 0-based index of the prediction
futureDate(lastDate, i) == lastDate + i + 1

\* one loop iteration up to its await: the window becomes a tensor and the
\* stored model is asked for its prediction.  TensorFlow.js throws when the
\* window is empty or not of the model's input shape.
modelCall(call) ==
  IF call.cur = <<>>
  THEN [call EXCEPT !.pc = "done", !.result = "TensorError"]
  ELSE IF model = 0
  THEN [call EXCEPT !.pc = "done", !.result = "TypeError"]
  ELSE IF Len(call.cur) # models[model].shape
  THEN [call EXCEPT !.pc = "done", !.result = "ShapeError"]
  ELSE [call EXCEPT !.pc = "await",
                    !.pending = ModelPredict(models[model], call.cur),
                    !.windows = Append(@, call.cur),
                    !.whole = @ /\ ModelRead(model).by = call.sBy
                                /\ ModelRead(model).fitted]

\* after the loop: denormalise with the stored scaler, date the points from
\* now = new Date(), return them
predictFinish(call, now) ==
  IF scaler.null /\ call.predictions # <<>>
  THEN [call EXCEPT !.pc = "done", !.result = "TypeError"]
  ELSE LET den == denormalizeData(call.predictions, scaler)
           lastDate == now
       IN  [call EXCEPT
              !.pc = "done", !.result = "ok",
              !.whole = @ /\ (call.predictions = <<>>
                                 \/ scaler.by = call.sBy),
              !.out = [j \in 1..Len(den) |->
                         [date |-> futureDate(lastDate, j - 1),
                          prediction |-> Round2(den[j])]]]

\* the outcomes of predictFinish, one for each day new Date() may read
predictFinishes(call) == {predictFinish(call, now) : now \in 0..MaxDay}

\* predict from its entry to its first await (or to its throw or return):
\* the call records it may leave in flight
predictEntry(prices, lookback, futureDays) ==
  LET base == [IdlePredict EXCEPT
                 !.lookback = lookback, !.futureDays = futureDays,
                 !.n = Len(prices),
                 !.fresh = (trainCount = 0), !.after = disposedFrom]
      norm == normalizePrices(prices, scaler)
      begun == [base EXCEPT !.norm = norm,
                            !.cur = SliceFrom(norm, -lookback),
                            !.sBy = scaler.by]
  IN  IF predictGuardFails(model, scaler)
      THEN {[base EXCEPT !.pc = "done", !.result = "NotTrained"]}
      ELSE IF scaler.null /\ prices # <<>>
      THEN {[base EXCEPT !.pc = "done", !.result = "TypeError"]}
      ELSE IF 0 < futureDays
      THEN {modelCall(begun)}
      ELSE predictFinishes(begun)

\* a predict call
predict(prices, lookback, futureDays) ==
  /\ Quiet
  /\ fc.pc = "idle"
  /\ fc' \in predictEntry(prices, lookback, futureDays)
  /\ UNCHANGED <<model, scaler, models, tr, trainCount,
                 disposedFrom, fnVars, appVars>>

\* prediction.data() resolves and predict resumes after its await
predictResume ==
  LET pushed == [fc EXCEPT !.predictions = Append(@, fc.pending),
                           !.cur = slideWindow(fc.cur, fc.pending),
                           !.i = @ + 1]
  IN  /\ Quiet
      /\ fc.pc = "await"
      /\ fc' \in IF pushed.i < pushed.futureDays
                  THEN {modelCall(pushed)}
                  ELSE predictFinishes(pushed)
      /\ UNCHANGED <<model, scaler, models, tr, trainCount,
                     disposedFrom, fnVars, appVars>>

\* the caller's continuation takes the outcome of predict
ReturnPredict ==
  /\ fc.pc = "done"
  /\ fc' = IdlePredict
  /\ UNCHANGED <<model, scaler, models, tr, trainCount, disposedFrom,
                 fnVars, appVars>>

(***************************************************************************)
(* dispose (lstmService.ts 170-176)                                        *)
(***************************************************************************)
\* mutant: the model is disposed but the field still refers to it
disposeKeepsField ==
  /\ Quiet
  /\ models' = IF model # 0
               THEN LET ms == [models EXCEPT ![model].disposed = TRUE]
                    IN  IF tr.pc = "fit" /\ tr.m = model
                        THEN ms ELSE Forget(ms, model)
               ELSE models
  /\ scaler' = NullScaler
  /\ disposedFrom' = IF model # 0 THEN "trained" ELSE "untrained"
  /\ UNCHANGED <<model, tr, fc, trainCount, fnVars, appVars>>

dispose ==
  /\ Quiet
  /\ models' = IF model # 0
               THEN LET ms == [models EXCEPT ![model].disposed = TRUE]
                    IN  IF tr.pc = "fit" /\ tr.m = model
                        THEN ms ELSE Forget(ms, model)
               ELSE models
  /\ model' = 0
  /\ scaler' = NullScaler
  /\ disposedFrom' = IF model # 0 THEN "trained" ELSE "untrained"
  /\ UNCHANGED <<tr, fc, trainCount, fnVars, appVars>>

(***************************************************************************)
(* The harness of the pure functions.                                      *)
(***************************************************************************)
PureInputs ==
  {[i \in DOMAIN s |-> c * s[i]] :
     s \in SeqsUpTo(1..PureMaxVal, PureMaxLen), c \in Scales}

ApplyCreateSequences ==
  /\ fnPc = "input"
  /\ fnPc' = "seq"
  /\ seqOut' = createSequences(fnData, fnParam)
  /\ UNCHANGED <<fnData, fnParam, maOut, rsiOut, svcVars, appVars>>

ApplyMovingAverage ==
  /\ fnPc = "input"
  /\ fnPc' = "ma"
  /\ maOut' = calculateMovingAverage(fnData, fnParam)
  /\ UNCHANGED <<fnData, fnParam, seqOut, rsiOut, svcVars, appVars>>

ApplyRSI ==
  /\ fnPc = "input"
  /\ fnPc' = "rsi"
  /\ rsiOut' = calculateRSI(fnData, fnParam)
  /\ UNCHANGED <<fnData, fnParam, seqOut, maOut, svcVars, appVars>>

(***************************************************************************)
(* A caller that awaits each call before it makes the next one.            *)
(***************************************************************************)
\* no predict call has returned yet
NoPrev ==
  [ok |-> FALSE, n |-> 0, lookback |-> 0, futureDays |-> 0, sBy |-> 0,
   whole |-> FALSE, out |-> <<>>]

\* the caller's continuation takes the outcome of predict and keeps the
\* points of a call that returned
awaitPredict ==
  /\ fc.pc = "done"
  /\ prev' = IF fc.result = "ok"
             THEN [ok |-> TRUE, n |-> fc.n, lookback |-> fc.lookback,
                   futureDays |-> fc.futureDays, sBy |-> fc.sBy,
                   whole |-> fc.whole, out |-> fc.out]
             ELSE prev
  /\ fc' = IdlePredict
  /\ UNCHANGED <<model, scaler, models, tr, trainCount, disposedFrom,
                 fnVars, uiVars>>

(***************************************************************************)
(* Dashboard (src/unnamed/part_002) and the data it loads.                 *)
(***************************************************************************)
\* generateMockData(symbol, days = 30)
MockDays == 30

\* lstmService.trainModel(prices, 30, 10): the lookback
TrainLookback == 10

\* lstmService.predict(prices, 10, 7): the lookback and the days
PredictLookback == 10

PredictDays == 7

\* calculateMovingAverage(data.historicalData, 10) and (..., 20)
Ma10Period == 10

Ma20Period == 20

\* calculateRSI(data, period = 14)
RsiPeriod == 14

\* the symbols selected (two of the popularStocks of StockSearch)
Symbols == {"AAPL", "MSFT"}

\* getBasePrice(symbol), in dollars
getBasePrice(symbol) == IF symbol = "AAPL" THEN 175 ELSE 380

\* Math.random() makes the price walk of generateMockData; two walks stand
\* for it: one rising a dollar a day, one alternating between two prices
MockWalks == {"rising", "zigzag"}

\* generateMockData(symbol): days + 1 points, the last one dated now, of
\* which the date and the price are kept
generateMockData(symbol, walk, now) ==
  [j \in 1..(MockDays + 1) |->
     [date |-> now - (MockDays - (j - 1)),
      price |-> getBasePrice(symbol)
                  + (IF walk = "rising" THEN j - 1 ELSE (j - 1) % 2)]]

\* getStockData(symbol) once its timer has fired; of StockData the symbol,
\* the price and the historical data are kept
getStockData(symbol, walk, now) ==
  LET historicalData == generateMockData(symbol, walk, now)
  IN  [null |-> FALSE, symbol |-> symbol,
       price |-> historicalData[Len(historicalData)].price,
       historicalData |-> historicalData]

\* useState<StockData | null>(null)
NullStock == [null |-> TRUE, symbol |-> "", price |-> 0, historicalData |-> <<>>]

\* no generatePredictions run is in flight
IdleRun == [pc |-> "idle", prices |-> <<>>, chartData |-> <<>>]

\* an optional field of a ChartPoint that is not set
Undefined == [k |-> "undefined", n |-> 0, d |-> 1]

\* stockData.historicalData.map(point => point.price)
pricesOf(historicalData) ==
  [j \in 1..Len(historicalData) |-> historicalData[j].price]

\* the technical indicators loadStockData calculates of a price list
indicators(prices) ==
  [ma10 |-> calculateMovingAverage(prices, Ma10Period),
   ma20 |-> calculateMovingAverage(prices, Ma20Period),
   rsi |-> calculateRSI(prices, RsiPeriod).rsi]

\* the price lists generateMockData returns (its dates do not matter here)
MockPrices ==
  {pricesOf(generateMockData(symbol, walk, 0)) :
     symbol \in Symbols, walk \in MockWalks}

\* indicators, tabulated once for the price lists of generateMockData
indicatorsOf == [prices \in MockPrices |-> indicators(prices)]

\* enrichedChartData of loadStockData
enrichedChartData(data) ==
  LET prices == pricesOf(data.historicalData)
  IN  [index \in 1..Len(data.historicalData) |->
         [date |-> data.historicalData[index].date,
          price |-> Num(data.historicalData[index].price),
          prediction |-> Undefined,
          ma10 |-> indicatorsOf[prices].ma10[index],
          ma20 |-> indicatorsOf[prices].ma20[index],
          rsi |-> indicatorsOf[prices].rsi[index]]]

\* updatedChartData of generatePredictions: the chartData of the render the
\* run was started from, followed by a point for each prediction
updatedChartData(captured, predictionData) ==
  captured \o
    [j \in 1..Len(predictionData) |->
       [date |-> predictionData[j].date, price |-> NaN,
        prediction |-> predictionData[j].prediction,
        ma10 |-> Undefined, ma20 |-> Undefined, rsi |-> Undefined]]

\* mutant: the button is not disabled while training
buttonDisabledNotTraining == loading \/ stockData.null

\* disabled={training || loading || !stockData}
buttonDisabled == training \/ loading \/ stockData.null

\* onSymbolSelect={setSelectedSymbol} with another symbol, and the effect
\* that follows the render: loadStockData(selectedSymbol) up to its await
setSelectedSymbol(symbol) ==
  /\ symbol # selectedSymbol
  /\ loadCount < MaxLoads
  /\ selectedSymbol' = symbol
  /\ loading' = TRUE
  /\ loads' = Append(loads, symbol)
  /\ loadCount' = loadCount + 1
  /\ UNCHANGED <<stockData, predictions, chartData, training,
                 showPredictions, gp, prev, svcVars, fnVars>>

\* the timer of the oldest getStockData call fires (all timers wait 500 ms)
\* and loadStockData resumes after its await
loadStockData(walk, now) ==
  /\ Quiet
  /\ loads # <<>>
  /\ LET data == getStockData(Head(loads), walk, now)
     IN  /\ stockData' = data
         /\ chartData' = enrichedChartData(data)
  /\ loading' = FALSE
  /\ loads' = Tail(loads)
  /\ UNCHANGED <<selectedSymbol, predictions, training, showPredictions,
                 loadCount, gp, prev, svcVars, fnVars>>

\* a click on the button: generatePredictions up to its await on trainModel
generatePredictions ==
  LET prices == pricesOf(stockData.historicalData)
  IN  /\ ~buttonDisabled
      /\ ~stockData.null
      /\ training' = TRUE
      /\ gp' = [pc |-> "train", prices |-> prices, chartData |-> chartData]
      /\ trainModelEntry(prices, TrainLookback)
      /\ UNCHANGED <<selectedSymbol, stockData, predictions, chartData,
                     loading, showPredictions, loads, loadCount, prev, fc,
                     fnVars>>

\* model.fit rejects for a reason of its own (the TensorFlow.js backend
\* fails); the catch block of trainModel rethrows
FitRejects ==
  /\ Quiet
  /\ tr.pc = "fit"
  /\ ~models[tr.m].updated
  /\ tr' = [tr EXCEPT !.pc = "done", !.result = "FitError"]
  /\ UNCHANGED <<model, scaler, models, fc, trainCount, disposedFrom,
                 fnVars, appVars>>

\* trainModel has settled: generatePredictions resumes and goes on to its
\* await on predict, or to its catch and finally blocks
generatePredictionsTrained ==
  /\ gp.pc = "train"
  /\ tr.pc = "done"
  /\ tr' = IdleTrain
  /\ IF tr.result = "ok"
     THEN /\ fc' \in predictEntry(gp.prices, PredictLookback, PredictDays)
          /\ gp' = [gp EXCEPT !.pc = "predict"]
          /\ UNCHANGED training
     ELSE /\ training' = FALSE
          /\ gp' = IdleRun
          /\ UNCHANGED fc
  /\ UNCHANGED <<selectedSymbol, stockData, predictions, chartData, loading,
                 showPredictions, loads, loadCount, prev, model, scaler,
                 models, trainCount, disposedFrom, fnVars>>

\* predict has settled: generatePredictions resumes and ends
generatePredictionsPredicted ==
  /\ gp.pc = "predict"
  /\ fc.pc = "done"
  /\ fc' = IdlePredict
  /\ IF fc.result = "ok"
     THEN /\ predictions' = fc.out
          /\ chartData' = updatedChartData(gp.chartData, fc.out)
          /\ showPredictions' = TRUE
     ELSE UNCHANGED <<predictions, chartData, showPredictions>>
  /\ training' = FALSE
  /\ gp' = IdleRun
  /\ UNCHANGED <<selectedSymbol, stockData, loading, loads, loadCount, prev,
                 model, scaler, models, tr, trainCount, disposedFrom, fnVars>>

(***************************************************************************)
(* The specifications.                                                     *)
(***************************************************************************)
InitSvc ==
  /\ model = 0
  /\ scaler = NullScaler
  /\ models = <<>>
  /\ tr = IdleTrain
  /\ fc = IdlePredict
  /\ trainCount = 0
  /\ disposedFrom = "none"

\* the pure functions are not being applied
InitFn ==
  /\ fnPc = "off"
  /\ fnData = <<>>
  /\ fnParam = 0
  /\ seqOut = [X |-> <<>>, y |-> <<>>]
  /\ maOut = <<>>
  /\ rsiOut = [threw |-> FALSE, rsi |-> <<>>]

\* the useState initial values of Dashboard; nothing in flight
InitUi ==
  /\ selectedSymbol = "AAPL"
  /\ stockData = NullStock
  /\ predictions = <<>>
  /\ chartData = <<>>
  /\ loading = FALSE
  /\ training = FALSE
  /\ showPredictions = FALSE
  /\ loads = <<>>
  /\ loadCount = 0
  /\ gp = IdleRun

Init ==
  /\ InitSvc
  /\ InitFn
  /\ prev = NoPrev
  /\ InitUi

Next ==
  \/ \E prices \in Histories, lookback \in 0..MaxLookback :
       trainModel(prices, lookback)
  \/ FitEpoch
  \/ FitFails
  \/ trainModelResume
  \/ ReturnTrain
  \/ \E prices \in PredictHistories, lookback \in 0..MaxLookback,
        futureDays \in 0..MaxHorizon :
       predict(prices, lookback, futureDays)
  \/ predictResume
  \/ ReturnPredict
  \/ dispose

Spec == Init /\ [][Next]_vars

InitPure ==
  /\ InitSvc
  /\ fnPc = "input"
  /\ fnData \in PureInputs
  /\ fnParam \in 0..PureMaxK
  /\ seqOut = [X |-> <<>>, y |-> <<>>]
  /\ maOut = <<>>
  /\ rsiOut = [threw |-> FALSE, rsi |-> <<>>]
  /\ prev = NoPrev
  /\ InitUi

NextPure ==
  \/ ApplyCreateSequences
  \/ ApplyMovingAverage
  \/ ApplyRSI

SpecPure == InitPure /\ [][NextPure]_vars

\* the service under a caller that awaits each call before the next
NextSeq ==
  \/ \E prices \in Histories, lookback \in 0..MaxLookback :
       fc.pc = "idle" /\ trainModel(prices, lookback)
  \/ FitEpoch
  \/ trainModelResume
  \/ ReturnTrain
  \/ \E prices \in PredictHistories, lookback \in 0..MaxLookback,
        futureDays \in 0..MaxHorizon :
       tr.pc = "idle" /\ predict(prices, lookback, futureDays)
  \/ predictResume
  \/ awaitPredict
  \/ tr.pc = "idle" /\ fc.pc = "idle" /\ dispose

SpecSeq == Init /\ [][NextSeq]_vars

\* the Dashboard after its first render and effect: loadStockData("AAPL") is
\* in flight
InitDash ==
  /\ InitSvc
  /\ InitFn
  /\ prev = NoPrev
  /\ selectedSymbol = "AAPL"
  /\ stockData = NullStock
  /\ predictions = <<>>
  /\ chartData = <<>>
  /\ loading = TRUE
  /\ training = FALSE
  /\ showPredictions = FALSE
  /\ loads = <<"AAPL">>
  /\ loadCount = 0
  /\ gp = IdleRun

NextDash ==
  \/ \E symbol \in Symbols : setSelectedSymbol(symbol)
  \/ \E walk \in MockWalks, now \in 0..MaxDay : loadStockData(walk, now)
  \/ generatePredictions
  \/ FitEpoch
  \/ FitRejects
  \/ trainModelResume
  \/ generatePredictionsTrained
  \/ predictResume
  \/ generatePredictionsPredicted

SpecDash == InitDash /\ [][NextDash]_vars

(***************************************************************************)
(* Properties.                                                             *)
(***************************************************************************)
\* the last n elements of s (n <= Len(s))
LastN(s, n) == SubSeq(s, Len(s) - n + 1, Len(s))

\* C1: on a forecaster on which trainModel was never called, the model and
\* the scaler are absent and every predict call fails at once with the
\* not-trained error and returns no points.
C1_FreshPredictNotTrained ==
  /\ trainCount = 0 => model = 0 /\ scaler.null
  /\ fc.pc # "idle" /\ fc.fresh =>
       fc.pc = "done" /\ fc.result = "NotTrained" /\ fc.out = <<>>

C1_Witness ==
  /\ fc.pc = "done" /\ fc.fresh
  /\ fc.n > 0 /\ fc.lookback > 0 /\ fc.futureDays > 0
  /\ fc.result = "NotTrained"

\* C2 (as claimed): a predict call that does not fail computed with a stored
\* scaler and asked a stored model that were produced by the same trainModel
\* call, and that call's fit had completed.
C2_PredictReadsWholePair ==
  fc.pc = "done" /\ fc.result = "ok" => fc.whole

\* C3 (as claimed): at most one model built by the service is live (built
\* and not disposed).
C3_AtMostOneLiveModel ==
  Cardinality({i \in 1..Len(models) : ~models[i].disposed}) <= 1

\* C4: from a dispose call until the next trainModel call the service holds
\* neither a model nor a scaler, and every predict call made in between
\* fails at once with the not-trained error.
C4_DisposedPredictNotTrained ==
  /\ disposedFrom # "none" => model = 0 /\ scaler.null
  /\ fc.pc # "idle" /\ fc.after # "none" =>
       fc.pc = "done" /\ fc.result = "NotTrained" /\ fc.out = <<>>

C4_Witness ==
  /\ fc.pc = "done" /\ fc.after = "trained"
  /\ fc.result = "NotTrained"
  /\ fc.n > 0 /\ fc.futureDays > 0

\* C5: a trainModel call with fewer than lookback + 1 prices fails with the
\* not-enough-data error, and no model was built (hence none fitted) by it.
C5_ShortHistoryRejected ==
  tr.pc # "idle" /\ tr.short =>
    /\ tr.pc = "done"
    /\ tr.result = "NotEnoughData"
    /\ \A i \in 1..Len(models) : models[i].by # tr.id

C5_Witness ==
  /\ tr.pc = "done" /\ tr.short /\ tr.result = "NotEnoughData"
  /\ model # 0

\* C6 (as claimed): a trainModel call with a flat history of more than
\* lookback prices fails with an invalid-input error: no NaN reaches the
\* sequences or the fit, no model is built, its scaler is not stored.
C6_FlatHistoryRejected ==
  tr.pc # "idle" /\ tr.flat =>
    /\ tr.pc = "done"
    /\ tr.result = "InvalidInput"
    /\ ~tr.nanData
    /\ \A i \in 1..Len(models) : models[i].by # tr.id
    /\ scaler.by # tr.id

\* C7 (as claimed): the points of a successful predict call carry the dates
\* D+1, D+2, ..., D+h, D being the last date of the caller's history (day 0).
C7_DatesFollowHistory ==
  fc.pc = "done" /\ fc.result = "ok" =>
    \A j \in 1..Len(fc.out) : fc.out[j].date = j

\* the window handed to the model at step k (1-based) is the last lookback
\* elements of the normalized history followed by the first k-1 predictions
WindowOk(call, k) ==
  /\ Len(call.windows[k]) = call.lookback
  /\ call.windows[k] =
       LastN(call.norm \o SubSeq(call.predictions \o <<call.pending>>,
                                 1, k - 1),
             call.lookback)

RolloutOk(call) ==
  /\ Len(call.windows) = call.futureDays
  /\ Len(call.out) = call.futureDays
  /\ \A k \in 1..Len(call.windows) : WindowOk(call, k)

\* C8 (as claimed): a predict call made on a trained forecaster (one that
\* passes the not-trained guard) with at least lookback prices calls the
\* model h times, returns h points and hands the model the rolling windows.
C8_RolloutWheneverTrained ==
  fc.pc = "done" /\ fc.result # "NotTrained" /\ fc.n >= fc.lookback =>
    RolloutOk(fc)

\* C8 (amended): a predict call made with lookback >= 1 and at least
\* lookback prices that passes the not-trained guard either throws (the
\* window is not of the stored model's input length, or the fields were
\* cleared while it was suspended) or returns, and a call that returns has
\* called the model h times and returns h points; the window of step k has
\* length lookback and is the last lookback elements of the normalized
\* history followed by the first k predictions (also while the call is
\* suspended, for the steps taken so far).
C8_RolloutWhenReturned ==
  /\ fc.pc = "done" /\ fc.result # "NotTrained" /\ fc.lookback >= 1
       /\ fc.n >= fc.lookback =>
         /\ fc.result \in {"ok", "ShapeError", "TypeError"}
         /\ fc.result = "ok" => RolloutOk(fc)
  /\ fc.pc = "await" /\ fc.lookback >= 1 /\ fc.n >= fc.lookback =>
       \A k \in 1..Len(fc.windows) : WindowOk(fc, k)

C8_Witness ==
  /\ fc.pc = "done" /\ fc.result = "ok"
  /\ fc.lookback = 2 /\ fc.futureDays = 2 /\ fc.n > 2
  /\ Len(fc.windows) = 2
  /\ fc.windows[2] # fc.windows[1]
  /\ fc.windows[2][2] = fc.predictions[1]

\* C9: for lookback > 0 createSequences returns max(0, len - lookback)
\* pairs in order, pair j (0-based) being the window data[j .. j+lookback-1]
\* and the target data[j+lookback]; [1,2,3,4,5] with lookback 2 gives the
\* windows [1,2],[2,3],[3,4] and the targets 3,4,5.
C9_CreateSequences ==
  fnPc = "seq" /\ fnParam > 0 =>
    LET n == Max2(0, Len(fnData) - fnParam)
    IN  /\ Len(seqOut.X) = n
        /\ Len(seqOut.y) = n
        /\ \A j \in 1..n :
             /\ Len(seqOut.X[j]) = fnParam
             /\ \A e \in 1..fnParam : seqOut.X[j][e] = fnData[j + e - 1]
             /\ seqOut.y[j] = fnData[j + fnParam]
        /\ fnData = <<1, 2, 3, 4, 5>> /\ fnParam = 2 =>
             /\ seqOut.X = << <<1, 2>>, <<2, 3>>, <<3, 4>> >>
             /\ seqOut.y = <<3, 4, 5>>

C9_Witness ==
  /\ fnPc = "seq" /\ fnData = <<1, 2, 3, 4, 5>> /\ fnParam = 2
  /\ seqOut.X = << <<1, 2>>, <<2, 3>>, <<3, 4>> >>
  /\ seqOut.y = <<3, 4, 5>>

\* the number of undefined (NaN) entries of a series
NaNCount(s) == Cardinality({i \in 1..Len(s) : IsNaN(s[i])})

\* the arithmetic mean of data[from .. to] (1-based, inclusive)
Mean(data, from, to) ==
  FDiv(Num(SeqSum(SubSeq(data, from, to))), Num(to - from + 1))

\* entry i (1-based) of ma is undefined up to index period - 1 and the mean
\* of the period prices ending at i from then on
MovingAverageEntries(data, period, ma) ==
  /\ Len(ma) = Len(data)
  /\ \A i \in 1..Len(ma) :
       IF i <= period - 1
       THEN IsNaN(ma[i])
       ELSE ma[i] = Mean(data, i - period + 1, i) /\ IsFin(ma[i])

\* C10 (as claimed): for period k > 0 the moving average has exactly k - 1
\* undefined entries, all at the start, and the means after them.
C10_ExactlyPeriodMinusOneUndefined ==
  fnPc = "ma" /\ fnParam > 0 =>
    /\ NaNCount(maOut) = fnParam - 1
    /\ MovingAverageEntries(fnData, fnParam, maOut)

\* C10 (amended): for period k > 0 the moving average is as long as the
\* price list and has exactly min(k - 1, len) undefined entries, all at the
\* start, and the means after them; [10,20,30] with period 2 gives
\* [undefined, 15, 25].
C10_MovingAverage ==
  fnPc = "ma" /\ fnParam > 0 =>
    /\ NaNCount(maOut) = Min2(fnParam - 1, Len(fnData))
    /\ MovingAverageEntries(fnData, fnParam, maOut)
    /\ fnData = <<10, 20, 30>> /\ fnParam = 2 =>
         maOut = <<NaN, Num(15), Num(25)>>

C10_Witness ==
  /\ fnPc = "ma" /\ fnData = <<10, 20, 30>> /\ fnParam = 2
  /\ maOut = <<NaN, Num(15), Num(25)>>

\* C11 (as claimed): for every price list, the empty one included, and
\* every period > 0 the series returned by calculateRSI and by
\* calculateMovingAverage has as many entries as the list.
C11_IndicatorLengthIsInputLength ==
  /\ fnPc = "ma" /\ fnParam > 0 => Len(maOut) = Len(fnData)
  /\ fnPc = "rsi" /\ fnParam > 0 =>
       ~rsiOut.threw /\ Len(rsiOut.rsi) = Len(fnData)

\* a <= b for finite numbers
FLe(a, b) == a.n * b.d <= b.n * a.d

\* the price changes of the trailing window of entry k (1-based) of the RSI
\* series: the period changes ending at price k
WindowChanges(data, period, k) ==
  [t \in 1..period |-> data[k - period + t] - data[k - period + t - 1]]

\* C12: for period > 0 every defined entry of the RSI series lies in
\* [0, 100]; an entry whose trailing window has no loss (no change at all
\* included) is 100, and one whose trailing window has only losses is 0.
C12_RSIBounded ==
  fnPc = "rsi" /\ fnParam > 0 =>
    /\ ~rsiOut.threw
    /\ \A k \in 1..Len(rsiOut.rsi) :
         /\ ~IsNaN(rsiOut.rsi[k]) =>
              /\ IsFin(rsiOut.rsi[k])
              /\ FLe(Num(0), rsiOut.rsi[k])
              /\ FLe(rsiOut.rsi[k], Num(100))
         /\ k > fnParam =>
              LET w == WindowChanges(fnData, fnParam, k)
              IN  /\ (\A t \in 1..fnParam : w[t] >= 0) =>
                       rsiOut.rsi[k] = Num(100)
                  /\ (\A t \in 1..fnParam : w[t] < 0) =>
                       rsiOut.rsi[k] = Num(0)

C12_Witness ==
  /\ fnPc = "rsi" /\ fnParam = 2 /\ fnData = <<3, 2, 1, 2, 3>>
  /\ rsiOut.rsi = <<NaN, NaN, Num(0), Num(50), Num(100)>>

\* C14 (as claimed): a trainModel call that fails on entry (not enough data,
\* or no tensor can be made of its windows) leaves the stored model and the
\* stored scaler as they were before the call.
C14_FailedTrainKeepsFields ==
  [][tr.pc = "idle" /\ tr'.pc = "done" /\ tr'.result # "ok" =>
       /\ model' = model
       /\ scaler'.null = scaler.null
       /\ scaler'.min = scaler.min
       /\ scaler'.max = scaler.max]_vars

\* C13 (as claimed): two predict calls that return, made by a caller that
\* awaits each call, with the same history, lookback and horizon, both on
\* the fitted model and the scaler of the same trainModel call, return the
\* same points: the same predictions with the same dates.
C13_SameCallSamePoints ==
  fc.pc = "done" /\ fc.result = "ok" /\ prev.ok
    /\ fc.n = prev.n /\ fc.lookback = prev.lookback
    /\ fc.futureDays = prev.futureDays
    /\ fc.sBy = prev.sBy /\ fc.whole /\ prev.whole
    /\ (\A j \in 1..Len(prev.out) : IsFin(prev.out[j].prediction))
    => fc.out = prev.out

\* C15: in the Dashboard the training flag is set exactly while a
\* generatePredictions run is in flight; the button that starts a run is
\* enabled only when no run and no trainModel or predict call is in flight;
\* and the trainModel call and the predict call of a run never overlap.
C15_RunsSerialized ==
  /\ training <=> gp.pc # "idle"
  /\ ~buttonDisabled => gp.pc = "idle" /\ tr.pc = "idle" /\ fc.pc = "idle"
  /\ gp.pc = "idle" => tr.pc = "idle" /\ fc.pc = "idle"
  /\ gp.pc = "train" => tr.pc # "idle" /\ fc.pc = "idle"
  /\ gp.pc = "predict" => tr.pc = "idle" /\ fc.pc # "idle"

C15_Witness ==
  /\ gp.pc = "predict" /\ fc.pc = "await"
  /\ training /\ ~loading /\ ~stockData.null
  /\ trainCount = 2 /\ loadCount >= 1

\* C16 (as claimed): when no load and no run is in flight, chartData is the
\* enriched historical points of the stock data loaded last, followed by at
\* most 7 prediction points with pairwise distinct dates.
C16_ChartIsHistoryThenForecast ==
  gp.pc = "idle" /\ loads = <<>> /\ ~stockData.null =>
    LET h == Len(stockData.historicalData)
        n == Len(chartData)
    IN  /\ n >= h
        /\ n - h <= PredictDays
        /\ SubSeq(chartData, 1, h) = enrichedChartData(stockData)
        /\ \A j \in (h + 1)..n : chartData[j].prediction # Undefined
        /\ \A i, j \in (h + 1)..n :
             i # j => chartData[i].date # chartData[j].date

=============================================================================
